---- MODULE Spec2Model ----
(***************************************************************************)
(* Model of the ayah share-card renderer (backend/share_image.py) and of   *)
(* the two share endpoints that call it (backend/main.py).                 *)
(*                                                                         *)
(* A render is a sequence of steps taken in the order of the statements of *)
(* generate_ayah_image / generate_ayah_image_bytes; the background cache   *)
(* directory bg_cache is shared with the warm thread of                    *)
(* preload_backgrounds, whose steps interleave with those of a render.     *)
(*                                                                         *)
(* Abstractions: an image is a record of its size, of what was drawn on    *)
(* it, and of the alpha and colour of a few sample pixels; a text is the   *)
(* sequence of the widths (in ems) of its space-separated tokens, the      *)
(* token of width 0 being the empty string.                                *)
(*                                                                         *)
(* Spec runs renders of every request one after the other on every initial *)
(* cache; SpecWarm runs renders of a few requests, repeated or not, while  *)
(* the warm thread fills the cache; SpecFn calls single functions of the   *)
(* renderer (font tier, wrapping, badge text, vertical layout) on          *)
(* arguments drawn from bounded sets; SpecPreload follows the warm thread  *)
(* to its end beside renders of the photographic style.                    *)
(*                                                                         *)
(* The progress and play endpoints of backend/main.py are modelled on a    *)
(* Quran database of the shape quran-dump/download.py builds (114 surahs,  *)
(* 6236 positions, one row for each position and edition): SpecQuran calls *)
(* get_sequential_progress and start_quran_play on sets of completions,    *)
(* SpecPlay follows a client that asks get_next_quran_ayah for one ayah    *)
(* after the other from 1:1, SpecReplay runs the statements of several     *)
(* end_play_session requests of one user and one ayah side by side.        *)
(***************************************************************************)
EXTENDS Integers, Sequences, FiniteSets, TLC

\* ------------------------------------------------------------------------
\* Program constants (share_image.py:41-54)
\* ------------------------------------------------------------------------
CARD_WIDTH == 2400
CARD_HEIGHT == 1350
SQUARE_CARD_SIZE == 2160
PORTRAIT_WIDTH == 1620
PORTRAIT_HEIGHT == 2880
SHADOW_EXPAND == 200
SHADOW_BLUR == 100
SHADOW_OPACITY == 40
SHADOW_OFFSET_Y == 20
SHADOW_OFFSET_X == 0
CORNER_RADIUS == 72

\* backend/main.py, get_sequential_progress
TOTAL_AYAHS == 6236
FORWARD_LIMIT == 5000

\* ------------------------------------------------------------------------
\* Bounds of the model
\* ------------------------------------------------------------------------
\* number of distinct background assets of the catalog
NumAssets == 2

\* greatest number of tokens of a text handed to a wrapping function
MaxWords == 3

\* number of text editions in the ayahs table
NumEditions == 2

\* number of play-end requests of one user for one ayah
NumPlays == 3

\* ------------------------------------------------------------------------
\* The catalog _NATURE_IMAGES: a list of URLs, here of asset ids. The last
\* URL of the source list repeats an earlier one (photo-1507400492013), so
\* the list is one longer than the set of its ids.
\* ------------------------------------------------------------------------
AssetIds == 1..NumAssets

NATURE_IMAGES == [i \in 1..(NumAssets + 1) |-> IF i <= NumAssets THEN i ELSE 1]

\* states of a file bg_cache/<id>.png
\*   absent  : no file;  partial : a writer has opened it and not finished
\*   ok      : a complete PNG;  corrupt : a file PIL cannot decode
CacheStates == {"absent", "partial", "ok", "corrupt"}

\* outcomes of requests.get(img_url, timeout=15) followed by Image.open
NetOutcomes == {"ok", "non200", "raise", "undecodable"}

\* ------------------------------------------------------------------------
\* Requests
\* ------------------------------------------------------------------------
\* the format strings tried; Lower and Upper are str.lower and str.upper
Formats == {"png", "jpg", "JPEG", "Jpeg", "gif"}

Lower(s) ==
    CASE s = "png" -> "png"
      [] s = "jpg" -> "jpg"
      [] s = "JPEG" -> "jpeg"
      [] s = "Jpeg" -> "jpeg"
      [] s = "JPG" -> "jpg"
      [] s = "PNG" -> "png"
      [] s = "gif" -> "gif"
      [] s = "GIF" -> "gif"
      [] OTHER -> s

Upper(s) ==
    CASE s = "png" -> "PNG"
      [] s = "jpg" -> "JPG"
      [] s = "JPEG" -> "JPEG"
      [] s = "Jpeg" -> "JPEG"
      [] s = "JPG" -> "JPG"
      [] s = "PNG" -> "PNG"
      [] s = "gif" -> "GIF"
      [] s = "GIF" -> "GIF"
      [] OTHER -> s

\* the style strings tried: the two documented ones and an unknown one
Styles == {"classic", "nature", "neon"}

\* Arabic verse texts, as the list text.split(' ') of token widths in ems;
\* <<0>> is the empty string (its split is the one empty token); the token
\* of 30 ems is wider than every card at every font size
ArabicTexts == {<<0>>, <<3, 30, 4>>}

\* translation texts; <<0>> is the empty string
TranslationTexts == {<<0>>, <<2, 3, 2>>}

Endpoints == {"by_position", "by_id"}

Requests ==
    [arabic_text : ArabicTexts, translation_text : TranslationTexts,
     square : BOOLEAN, portrait : BOOLEAN, style : Styles, format : Formats,
     surah_english_name : {"Al-Faatiha"}, surah_translation : {"The Opening"},
     surah_number : {1}, ayah_number : {1}, total_ayahs : {7}]

\* the requests sent while the warm thread runs
WarmRequests ==
    [arabic_text : {<<3, 30, 4>>}, translation_text : {<<2, 3, 2>>},
     square : {FALSE}, portrait : BOOLEAN, style : {"classic", "nature"},
     format : {"png", "jpg"},
     surah_english_name : {"Al-Faatiha"}, surah_translation : {"The Opening"},
     surah_number : {1}, ayah_number : {1}, total_ayahs : {7}]

\* the requests sent while the termination of the warm thread is followed
PreloadRequests ==
    {rq \in WarmRequests : rq.style = "nature" /\ rq.format = "png" /\ ~rq.portrait}

NoRequest ==
    [arabic_text |-> <<0>>, translation_text |-> <<0>>, square |-> FALSE,
     portrait |-> FALSE, style |-> "classic", format |-> "png",
     surah_english_name |-> "", surah_translation |-> "", surah_number |-> 0,
     ayah_number |-> 0, total_ayahs |-> 0]

\* ------------------------------------------------------------------------
\* Fonts (get_font, get_arabic_font)
\* ------------------------------------------------------------------------
LatinFontOptions ==
    <<"InstrumentSerif-Regular.ttf", "Inter-VariableFont_opsz,wght.ttf",
      "Arial.ttf", "Helvetica.ttf", "DejaVuSans.ttf">>

ArabicFontOptions ==
    <<"AmiriQuran-Regular.ttf", "PlaypenSansArabic-VariableFont_wght.ttf",
      "NotoNaskhArabic-Regular.ttf", "ScheherazadeNew-Regular.ttf",
      "Traditional Arabic.ttf", "Arial.ttf">>

\* the installations tried: no font file loads, the bundled fonts load
FontInstalls ==
    { {}, {"AmiriQuran-Regular.ttf", "InstrumentSerif-Regular.ttf"} }

\* first font of the options that loads, or the built-in default font.
\* Both loops of get_font try ImageFont.truetype inside try/except and fall
\* through to ImageFont.load_default().
FirstLoadable(options, installed) ==
    LET idx == {i \in 1..Len(options) : options[i] \in installed}
    IN  IF idx = {} THEN "load_default"
        ELSE options[CHOOSE i \in idx : \A j \in idx : i <= j]

\* mutant: the handle is taken from a table, no file is looked at
FontProbes_from_table(options, installed) == 0

\* the number of times one call of get_font or get_arabic_font goes to the
\* filesystem: font_path.exists() for each option up to the first that
\* exists, whose file ImageFont.truetype then reads; when none exists, an
\* existence test for every option and then a search by name for every
\* option (lines 74-86, 103-115)
FontProbes(options, installed) ==
    LET idx == {i \in 1..Len(options) : options[i] \in installed}
    IN  IF idx = {} THEN Len(options) + Len(options)
        ELSE (CHOOSE i \in idx : \A j \in idx : i <= j) + 1

\* mutant: no fallback to the built-in font
get_font_nofallback(installed) ==
    LET idx == {i \in 1..Len(LatinFontOptions) : LatinFontOptions[i] \in installed}
    IN  IF idx = {} THEN "raise"
        ELSE LatinFontOptions[CHOOSE i \in idx : \A j \in idx : i <= j]

get_font(installed) == FirstLoadable(LatinFontOptions, installed)

get_arabic_font(installed) == FirstLoadable(ArabicFontOptions, installed)

\* ------------------------------------------------------------------------
\* Card and canvas geometry (generate_ayah_image, lines 361-371)
\* ------------------------------------------------------------------------
CardSize(square, portrait) ==
    IF portrait THEN <<PORTRAIT_WIDTH, PORTRAIT_HEIGHT>>
    ELSE IF square THEN <<SQUARE_CARD_SIZE, SQUARE_CARD_SIZE>>
    ELSE <<CARD_WIDTH, CARD_HEIGHT>>

\* mutant: the canvas is sized by the blur margin of create_shadow (blur * 3)
CanvasSize_blur_margin(card) ==
    <<card[1] + (SHADOW_BLUR * 3) * 2, card[2] + (SHADOW_BLUR * 3) * 2>>

CanvasSize(card) ==
    <<card[1] + SHADOW_EXPAND * 2, card[2] + SHADOW_EXPAND * 2>>

\* create_shadow, lines 138-141: the layer is larger than the card by
\* expand = blur * 3 on every side
ShadowLayerSize(card, blur) ==
    <<card[1] + (blur * 3) * 2, card[2] + (blur * 3) * 2>>

\* create_shadow, lines 146-151: the box <<left, top, right, bottom>> of the
\* rounded rectangle inside the layer
ShadowRect(card, blur, offset_x, offset_y) ==
    <<blur * 3 + offset_x, blur * 3 + offset_y,
      blur * 3 + card[1] + offset_x, blur * 3 + card[2] + offset_y>>

\* lines 395-396: <<shadow_x, shadow_y>>, where the layer is pasted
ShadowOrigin ==
    <<SHADOW_EXPAND - SHADOW_BLUR * 2, SHADOW_EXPAND - SHADOW_BLUR * 2>>

\* line 397: a box of the pasted layer in canvas coordinates
PasteAt(box, origin) ==
    <<box[1] + origin[1], box[2] + origin[2], box[3] + origin[1], box[4] + origin[2]>>

\* mutant: the card is pasted where the shadow layer is pasted (lines 395-396)
CardBox_at_shadow(card) ==
    <<SHADOW_EXPAND - SHADOW_BLUR * 2, SHADOW_EXPAND - SHADOW_BLUR * 2,
      SHADOW_EXPAND - SHADOW_BLUR * 2 + card[1],
      SHADOW_EXPAND - SHADOW_BLUR * 2 + card[2]>>

\* lines 647-649: the box <<left, top, right, bottom>> of the canvas that
\* img.paste(card, (card_x, card_y), card) covers
CardBox(card) ==
    <<SHADOW_EXPAND, SHADOW_EXPAND, SHADOW_EXPAND + card[1], SHADOW_EXPAND + card[2]>>

\* ------------------------------------------------------------------------
\* Pixel arithmetic of PIL on one channel value 0..255
\* ------------------------------------------------------------------------
\* Image.paste(src, box, mask): every band, alpha included, becomes
\* src * mask + dst * (255 - mask)
PasteMask(dst, src, mask) == (src * mask + dst * (255 - mask)) \div 255

\* Image.alpha_composite: alpha of src over dst
CompositeAlpha(dst, src) == src + (dst * (255 - src)) \div 255

\* alpha of row y of the fallback gradient: int(255 * (1 - y/height * 0.5))
FallbackAlpha(y, height) == (255 * (2 * height - y)) \div (2 * height)

\* the sample pixels followed through the compositing:
\*   margin : canvas pixel (0, 0), in the margin around the card
\*   centre : the pixel in the middle of the card (inside the glass panel
\*            of a nature card), where no glyph is drawn
Samples == {"margin", "centre"}

\* alpha of the blurred shadow layer at a sample. The corner of the layer is
\* 3 * blur away from the shadow rectangle, beyond the reach of the blur;
\* the centre is further than that inside the rectangle.
ShadowAlphaAt(p) == IF p = "margin" THEN 0 ELSE SHADOW_OPACITY

\* alpha of the rounded-rectangle mask of the card at a sample of the card
CardMaskAt(p) == IF p = "centre" THEN 255 ELSE 0

\* colours are named, not computed
FlattenColor == "light_orange_255_247_237"

\* ------------------------------------------------------------------------
\* Text measuring and wrapping (wrap_arabic_text, wrap_english_text)
\* ------------------------------------------------------------------------
\* A string is the list of its tokens; "" is <<>>. Joining the empty current
\* line with a word gives the word; joining a non-empty line with a word,
\* even an empty one, adds a space and the word.
IsEmptyStr(line) == line = <<>>

\* mutant: the word is put in front of the current line
JoinWord_in_front(current, word) ==
    IF IsEmptyStr(current)
    THEN (IF word = 0 THEN <<>> ELSE <<word>>)
    ELSE <<word>> \o current

JoinWord(current, word) ==
    IF IsEmptyStr(current)
    THEN (IF word = 0 THEN <<>> ELSE <<word>>)
    ELSE Append(current, word)

RECURSIVE SumSeq(_)
SumSeq(s) == IF s = <<>> THEN 0 ELSE Head(s) + SumSeq(Tail(s))

\* draw.textbbox((0, 0), line, font=font): bbox[2] - bbox[0]; a token of w ems
\* is w * size pixels wide and a space a quarter of the size
MeasureWidth(line, size) ==
    IF line = <<>> THEN 0
    ELSE SumSeq(line) * size + (Len(line) - 1) * (size \div 4)

\* mutant: every word is accepted on the current line
WrapLoop_never_wraps(words, lines, current, size, max_width) ==
    <<lines, current \o words>>

\* The loop of lines 298-308, one line at a time. FillLine is the run of
\* words accepted on the current line: it stops at the first word whose
\* test_line is too wide and returns the line and the words left, that word
\* first.
\* mutant: a line is closed after its first word
FillLine_one_word(words, current, size, max_width) ==
    IF words = <<>> \/ ~IsEmptyStr(current) THEN <<current, words>>
    ELSE <<JoinWord(current, Head(words)), Tail(words)>>

RECURSIVE FillLine(_, _, _, _)
FillLine(words, current, size, max_width) ==
    IF words = <<>> THEN <<current, words>>
    ELSE LET test_line == JoinWord(current, Head(words))
         IN  IF MeasureWidth(test_line, size) <= max_width
             THEN FillLine(Tail(words), test_line, size, max_width)
             ELSE <<current, words>>

\* the word that did not fit: the current line is appended if it is not
\* empty, and the word starts the next line
RECURSIVE WrapLoop(_, _, _, _, _)
WrapLoop(words, lines, current, size, max_width) ==
    LET r == FillLine(words, current, size, max_width)
    IN  IF r[2] = <<>> THEN <<lines, r[1]>>
        ELSE WrapLoop(Tail(r[2]),
                      IF ~IsEmptyStr(r[1]) THEN Append(lines, r[1]) ELSE lines,
                      JoinWord(<<>>, Head(r[2])), size, max_width)

\* mutant: the last line is appended without testing that it is non-empty
wrap_text_keep_empty(text, size, max_width) ==
    LET r == WrapLoop(text, <<>>, <<>>, size, max_width)
    IN  Append(r[1], r[2])

wrap_text(text, size, max_width) ==
    LET r == WrapLoop(text, <<>>, <<>>, size, max_width)
    IN  IF ~IsEmptyStr(r[2]) THEN Append(r[1], r[2]) ELSE r[1]

\* the two functions have the same body
wrap_arabic_text(text, size, max_width) == wrap_text(text, size, max_width)

wrap_english_text(text, size, max_width) == wrap_text(text, size, max_width)

\* The form of an Arabic string. The text of an ayah is stored, and handed
\* to generate_ayah_image, as base letters in reading (logical) order; the
\* renderer hands strings on as they are: share_image.py imports and calls
\* nothing that maps letters to presentation forms or reorders them.
StoredForm == "base_letters_logical_order"

\* the tokens of a list of lines, read line after line
RECURSIVE TokensOf(_)
TokensOf(lines) ==
    IF lines = <<>> THEN <<>> ELSE Head(lines) \o TokensOf(Tail(lines))

\* len(text.split()): the number of non-empty tokens
WordCount(text) == Cardinality({i \in 1..Len(text) : text[i] # 0})

\* the string is truthy (non-empty)
Truthy(text) == text # <<0>> /\ text # <<>>

\* mutant: the test of the middle tier comes first
FontTier_medium_first(arabic_words, translation_words) ==
    IF arabic_words > 20 \/ translation_words > 40 THEN <<96, 57, 90>>
    ELSE IF arabic_words > 30 \/ translation_words > 60 THEN <<84, 48, 80>>
    ELSE <<108, 66, 100>>

\* font sizes by word counts (lines 493-509): <<arabic, translation, scale%>>
FontTier(arabic_words, translation_words) ==
    IF arabic_words > 30 \/ translation_words > 60 THEN <<84, 48, 80>>
    ELSE IF arabic_words > 20 \/ translation_words > 40 THEN <<96, 57, 90>>
    ELSE <<108, 66, 100>>

\* ------------------------------------------------------------------------
\* Vertical layout (lines 485-628): the values current_y takes
\* ------------------------------------------------------------------------
\* int(k * scale), the scale being 0.8, 0.9 or 1.0 held in percent
Scaled(k, scale) == (k * scale) \div 100

\* badge_bbox[3] - badge_bbox[1]: the height of the badge text, taken to be
\* the size of its font, int(42 * scale)
BadgeHeight(scale) == Scaled(42, scale)

\* mutant: the slack is halved
CenterOffset_half(total_content, available_height) ==
    IF total_content < available_height
    THEN (available_height - total_content) \div 2
    ELSE 0

\* lines 569-570: what is added to current_y before the first verse line
CenterOffset(total_content, available_height) ==
    IF total_content < available_height
    THEN (available_height - total_content) \div 3
    ELSE 0

\* sizes is the tier <<arabic_font_size, translation_font_size, scale>>;
\* arabic_lines and trans_lines are the numbers of wrapped lines. y_pill is
\* where the badge pill is drawn, y_badge is current_y after the badge,
\* y_start where the first verse line is drawn, y_verse after the last verse
\* line, y_divider where the divider is drawn, y_end after the last
\* translation line
Layout(card_height, sizes, arabic_lines, trans_lines) ==
    LET scale == sizes[3]
        margin_top == 90
        margin_bottom == 120
        pill_height == BadgeHeight(scale) + 18 * 2
        y_badge == margin_top + pill_height + Scaled(40, scale)
        arabic_line_height == (sizes[1] * 18) \div 10
        translation_line_height == (sizes[2] * 15) \div 10
        arabic_block_height == arabic_lines * arabic_line_height
        translation_block_height == trans_lines * translation_line_height
        divider_spacing == Scaled(80, scale)
        total_content ==
            arabic_block_height + divider_spacing + translation_block_height
        available_height == card_height - y_badge - margin_bottom - 50
        y_start == y_badge + CenterOffset(total_content, available_height)
        y_verse == y_start + arabic_lines * arabic_line_height
        y_divider == y_verse + Scaled(100, scale)
        y_translation == y_divider + Scaled(100, scale)
        y_end == y_translation + trans_lines * translation_line_height
    IN  [card_height |-> card_height, margin_bottom |-> margin_bottom,
         total_content |-> total_content, available_height |-> available_height,
         y_pill |-> margin_top, pill_height |-> pill_height,
         y_badge |-> y_badge, y_start |-> y_start, y_verse |-> y_verse,
         y_divider |-> y_divider, y_end |-> y_end,
         y_text |-> IF trans_lines > 0 THEN y_end ELSE y_verse,
         footer_y |-> card_height - 75]

\* ------------------------------------------------------------------------
\* The badge text (lines 514-523)
\* ------------------------------------------------------------------------
\* the separator of line 523: two spaces, the bullet U+2022, two spaces
BULLET_SEP == "  <U+2022>  "

\* mutant: the total is written whatever it is
BadgeText_always_total(surah_english_name, surah_translation, surah_number, ayah_number, total_ayahs) ==
    LET name_part ==
            IF surah_english_name # "" /\ surah_translation # ""
            THEN surah_english_name \o " (" \o surah_translation \o ")"
            ELSE IF surah_english_name # "" THEN surah_english_name
            ELSE "Surah " \o ToString(surah_number)
    IN  name_part \o BULLET_SEP \o "Ayah " \o ToString(ayah_number) \o "/"
            \o ToString(total_ayahs)

\* a string is falsy when it is empty
BadgeText(surah_english_name, surah_translation, surah_number, ayah_number, total_ayahs) ==
    LET name_or == IF surah_english_name # "" THEN surah_english_name
                   ELSE "Surah " \o ToString(surah_number)
        name_part == IF surah_english_name # "" /\ surah_translation # ""
                     THEN surah_english_name \o " (" \o surah_translation \o ")"
                     ELSE name_or
        ayah_part == IF total_ayahs > 0
                     THEN "Ayah " \o ToString(ayah_number) \o "/"
                              \o ToString(total_ayahs)
                     ELSE "Ayah " \o ToString(ayah_number)
    IN  name_part \o BULLET_SEP \o ayah_part

\* ------------------------------------------------------------------------
\* Output format (main.py 2276, 2294; share_image.py 692-697)
\* ------------------------------------------------------------------------
\* mutant: an unrecognised format defaults to JPEG
ImageFormat_default_jpeg(format) ==
    IF Lower(format) \in {"png", "jpeg", "jpg"} THEN Upper(format) ELSE "JPEG"

\* image_format = format.upper() if format.lower() in [...] else "PNG"
ImageFormat(format) ==
    IF Lower(format) \in {"png", "jpeg", "jpg"} THEN Upper(format) ELSE "PNG"

\* media_type = "image/jpeg" if image_format == "JPEG" else "image/png"
MediaType(image_format) ==
    IF image_format = "JPEG" THEN "image/jpeg" ELSE "image/png"

\* the codec generate_ayah_image_bytes saves with
Codec(format) ==
    IF Lower(format) = "jpg" \/ Lower(format) = "jpeg" THEN "JPEG" ELSE "PNG"

\* rgb_img.paste(img, mask=img.split()[3]) on a canvas filled with the
\* flatten colour: what a pixel of the given source alpha shows
JpegPixel(alpha) ==
    IF alpha = 0 THEN FlattenColor
    ELSE IF alpha = 255 THEN "image"
    ELSE "image_blended_with_flatten"

\* ------------------------------------------------------------------------
\* Style dispatch and the guarded calls of get_unsplash_image
\* ------------------------------------------------------------------------
\* mutant: everything but "classic" takes the nature branch
IsNature_not_classic(style) == style # "classic"

\* mutant: the photographic background is used for every style
IsNature_always(style) == TRUE

\* if style == "nature": ... else: ...   (lines 403, 433, 642)
IsNature(style) == style = "nature"

\* mutant: a file still being written decodes
CacheRead_decodes_partial(entry) ==
    IF entry = "absent" THEN "miss"
    ELSE IF entry \in {"ok", "partial"} THEN "image" ELSE "miss"

\* mutant: the existence test fails, the cache is never used
CacheRead_never_hit(entry) == "miss"

\* mutant: a cache file that does not decode is not caught
CacheRead_uncaught(entry) ==
    IF entry = "absent" THEN "miss"
    ELSE IF entry = "ok" THEN "image" ELSE "exception"

\* lines 173-177: if cache_path.exists(): try: open ... except: pass
CacheRead(entry) ==
    IF entry = "absent" THEN "miss"
    ELSE IF entry = "ok" THEN "image" ELSE "miss"

\* mutant: the status code is not tested
FetchResult_ignores_status(outcome) ==
    IF outcome \in {"ok", "non200"} THEN "image" ELSE "fallthrough"

\* mutant: only a bad status is handled, an exception of the fetch escapes
FetchResult_uncaught(outcome) ==
    IF outcome = "ok" THEN "image"
    ELSE IF outcome = "non200" THEN "fallthrough" ELSE "exception"

\* lines 180-188: try: get; if status == 200: open, save, return
\* except Exception: print
FetchResult(outcome) ==
    IF outcome = "ok" THEN "image" ELSE "fallthrough"

\* ------------------------------------------------------------------------
\* State
\* ------------------------------------------------------------------------
VARIABLES
    cache,          \* bg_cache: asset id -> state of its file
    installed,      \* the font files that load on this installation
    pc,             \* position of the render in flight ("idle": none)
    req,            \* arguments of the render in flight
    image_format,   \* the endpoint's local image_format
    img_id,         \* the asset chosen by random.choice (0: none)
    bg,             \* the image returned by get_unsplash_image
    card,           \* the card layer
    img,            \* the canvas
    txt,            \* fonts, font sizes and wrapped lines
    response,       \* what the endpoint returns
    eff,            \* side effects of the render in flight
    prev,           \* response of the previous render of the same request
    wpc,            \* position of the warm thread
    widx,           \* index of the warm thread in the catalog
    call,           \* a function called on its own: its name and arguments
    ret,            \* what that call returned
    replay_stats,   \* the rows of replay_stats of one user and one ayah
    plays           \* the play-end requests: position, duration, row read

vars ==
    <<cache, installed, pc, req, image_format, img_id, bg, card, img, txt,
      response, eff, prev, wpc, widx, call, ret, replay_stats, plays>>

renderLocals == <<image_format, img_id, bg, card, img, txt, response, eff>>

warmVars == <<wpc, widx>>

fnVars == <<call, ret>>

dbVars == <<replay_stats, plays>>

\* the play-end requests of one user for one ayah, each on a play session of
\* its own
PlayIds == 1..NumPlays

NoRow == [found |-> FALSE, play_count |-> 0, total_duration_seconds |-> 0]

NoPlays ==
    [r \in PlayIds |-> [pc |-> "not_sent", duration_seconds |-> 0, existing |-> NoRow]]

NoCall == [fn |-> "none"]

NoRet == [status |-> "not_called"]

NoBg == [kind |-> "none", asset |-> 0, alpha |-> 0]

NoCard == [size |-> <<0, 0>>, bg |-> NoBg, alpha |-> 0, layers |-> <<>>]

NoImg ==
    [size |-> <<0, 0>>, alpha |-> [p \in Samples |-> 0], layers |-> <<>>,
     box |-> <<0, 0, 0, 0>>, shadow_rect |-> <<0, 0, 0, 0>>,
     shadow_layer |-> <<0, 0, 0, 0>>]

NoTxt ==
    [sizes |-> <<0, 0, 0>>, fonts |-> <<>>, arabic_lines |-> <<>>,
     trans_lines |-> <<>>, measured |-> "none", drawn |-> "none",
     badge_text |-> "", layout |-> <<>>]

NoResponse ==
    [status |-> "none", codec |-> "none", channels |-> 0, size |-> <<0, 0>>,
     alpha |-> [p \in Samples |-> 0], pixel |-> [p \in Samples |-> "none"],
     content |-> <<>>, media_type |-> "none"]

\* net: HTTP requests issued; outcome: outcome of the last one; seen: state
\* of the cache file when the render looked at it; writes: files written;
\* font_calls: calls of get_font and get_arabic_font; font_fs: times these
\* calls went to the filesystem; stages: what the render has done so far, in
\* the order in which it did it
NoEff ==
    [net |-> 0, outcome |-> "none", seen |-> "none", writes |-> {},
     cache_access |-> FALSE, drawn |-> FALSE, font_calls |-> 0, font_fs |-> 0,
     stages |-> <<>>]

NoPrev == [status |-> "no_previous_render"]

Init ==
    /\ cache \in [AssetIds -> {"absent", "ok", "corrupt"}]
    /\ installed \in FontInstalls
    /\ pc = "idle"
    /\ req = NoRequest
    /\ image_format = "none"
    /\ img_id = 0
    /\ bg = NoBg
    /\ card = NoCard
    /\ img = NoImg
    /\ txt = NoTxt
    /\ response = NoResponse
    /\ eff = NoEff
    /\ prev = NoPrev
    /\ wpc = "off"
    /\ widx = 0
    /\ replay_stats = <<>>
    /\ plays = NoPlays
    /\ call = NoCall
    /\ ret = NoRet

\* an exception leaves generate_ayah_image_bytes and the endpoint: the
\* request ends without image bytes
Raise ==
    /\ pc' = "done"
    /\ response' = [NoResponse EXCEPT !.status = "Exception"]

\* ------------------------------------------------------------------------
\* The share endpoints (main.py get_ayah_share_image,
\* get_ayah_share_image_by_id) up to the call of generate_ayah_image_bytes
\* ------------------------------------------------------------------------
\* The by-id endpoint has no portrait parameter: portrait keeps its default.
Request(ep, rq) ==
    /\ pc = "idle"
    /\ req' = IF ep = "by_id" THEN [rq EXCEPT !.portrait = FALSE] ELSE rq
    /\ image_format' = ImageFormat(rq.format)
    /\ pc' = "shadow"
    /\ UNCHANGED <<cache, installed, fnVars, dbVars, img_id, bg, card, img, txt, response, eff,
                   prev, warmVars>>

\* ------------------------------------------------------------------------
\* generate_ayah_image, statement by statement
\* ------------------------------------------------------------------------
\* lines 361-397: card size, canvas size, shadow layer pasted on the
\* transparent canvas with itself as mask
CreateShadow ==
    /\ pc = "shadow"
    /\ LET size == CardSize(req.square, req.portrait)
       IN  /\ card' = [NoCard EXCEPT !.size = size]
           /\ img' = [size |-> CanvasSize(size),
                      alpha |-> [p \in Samples |->
                                   PasteMask(0, ShadowAlphaAt(p), ShadowAlphaAt(p))],
                      layers |-> <<"shadow">>,
                      box |-> <<0, 0, 0, 0>>,
                      shadow_rect |->
                          PasteAt(ShadowRect(size, SHADOW_BLUR, SHADOW_OFFSET_X,
                                             SHADOW_OFFSET_Y), ShadowOrigin),
                      shadow_layer |->
                          LET layer == ShadowLayerSize(size, SHADOW_BLUR)
                          IN  PasteAt(<<0, 0, layer[1], layer[2]>>, ShadowOrigin)]
    /\ eff' = [eff EXCEPT !.drawn = TRUE]
    /\ pc' = "background"
    /\ UNCHANGED <<cache, installed, fnVars, dbVars, req, image_format, img_id, bg, txt,
                   response, prev, warmVars>>

\* lines 403-426: the style decides between the photographic background and
\* the gradient drawn line by line with alpha 255
Background ==
    /\ pc = "background"
    /\ IF IsNature(req.style)
       THEN /\ pc' = "bg_choose"
            /\ UNCHANGED card
       ELSE /\ pc' = "mask"
            /\ card' = [card EXCEPT !.bg = [kind |-> "gradient", asset |-> 0,
                                            alpha |-> 255],
                                    !.alpha = 255,
                                    !.layers = Append(@, "background")]
    /\ eff' = [eff EXCEPT !.stages = @ \o <<"RenderBackground">>]
    /\ UNCHANGED <<cache, installed, fnVars, dbVars, req, image_format, img_id, bg,
                   img, txt, response, prev, warmVars>>

\* get_unsplash_image, lines 161-170: mkdir of the cache directory and
\* random.choice over the catalog
BgChoose ==
    /\ pc = "bg_choose"
    /\ \E i \in DOMAIN NATURE_IMAGES : img_id' = NATURE_IMAGES[i]
    /\ eff' = [eff EXCEPT !.cache_access = TRUE]
    /\ pc' = "bg_cache"
    /\ UNCHANGED <<cache, installed, fnVars, dbVars, req, image_format, bg, card, img, txt,
                   response, prev, warmVars>>

\* lines 173-177: the cached file, when it exists and decodes, is returned
BgCache ==
    /\ pc = "bg_cache"
    /\ LET r == CacheRead(cache[img_id])
       IN  CASE r = "image" ->
                  /\ bg' = [kind |-> "photo", asset |-> img_id, alpha |-> 255]
                  /\ pc' = "bg_paste"
                  /\ UNCHANGED response
             [] r = "miss" ->
                  /\ pc' = "bg_fetch"
                  /\ UNCHANGED <<bg, response>>
             [] OTHER ->
                  /\ Raise
                  /\ UNCHANGED bg
    /\ eff' = [eff EXCEPT !.seen = cache[img_id]]
    /\ UNCHANGED <<cache, installed, fnVars, dbVars, req, image_format, img_id, card, img, txt,
                   prev, warmVars>>

\* lines 180-183: requests.get and Image.open of the body, inside the try
BgFetch ==
    /\ pc = "bg_fetch"
    /\ \E outcome \in NetOutcomes :
         LET r == FetchResult(outcome)
         IN  /\ eff' = [eff EXCEPT !.net = @ + 1, !.outcome = outcome]
             /\ CASE r = "image" ->
                       /\ pc' = "bg_save"
                       /\ UNCHANGED response
                  [] r = "fallthrough" ->
                       /\ pc' = "bg_fallback"
                       /\ UNCHANGED response
                  [] OTHER -> Raise
    /\ UNCHANGED <<cache, installed, fnVars, dbVars, req, image_format, img_id, bg, card, img,
                   txt, prev, warmVars>>

\* line 185: img.save(cache_path) opens the file for writing ...
BgSaveBegin ==
    /\ pc = "bg_save"
    /\ cache' = [cache EXCEPT ![img_id] = "partial"]
    /\ eff' = [eff EXCEPT !.writes = @ \cup {img_id}]
    /\ pc' = "bg_saving"
    /\ UNCHANGED <<installed, fnVars, dbVars, req, image_format, img_id, bg, card, img, txt,
                   response, prev, warmVars>>

\* the file after a writer has written its last byte and closed it. Both
\* writers open the path with truncation and write the bytes of the same
\* image from offset 0. While the other writer is between its open and its
\* close, the file is complete or not, depending on how far the other has
\* got since the later of the two truncations; otherwise it is complete.
ClosedFile(other_is_writing) ==
    IF other_is_writing THEN {"ok", "partial"} ELSE {"ok"}

WarmIsWriting(id) == wpc = "saving" /\ NATURE_IMAGES[widx] = id

RenderIsWriting(id) == pc = "bg_saving" /\ img_id = id

\* ... and completes it; line 186 returns the fetched image
BgSaveEnd ==
    /\ pc = "bg_saving"
    /\ \E file \in ClosedFile(WarmIsWriting(img_id)) :
         cache' = [cache EXCEPT ![img_id] = file]
    /\ bg' = [kind |-> "photo", asset |-> img_id, alpha |-> 255]
    /\ pc' = "bg_paste"
    /\ UNCHANGED <<installed, fnVars, dbVars, req, image_format, img_id, card, img, txt,
                   response, eff, prev, warmVars>>

\* lines 190-197: the dark gradient, whose alpha falls from 255 at the top
\* row to half of it at the bottom row
BgFallback ==
    /\ pc = "bg_fallback"
    /\ bg' = [kind |-> "fallback", asset |-> 0,
              alpha |-> FallbackAlpha(card.size[2] \div 2, card.size[2])]
    /\ pc' = "bg_paste"
    /\ UNCHANGED <<cache, installed, fnVars, dbVars, req, image_format, img_id, card, img, txt,
                   response, eff, prev, warmVars>>

\* lines 406-414: card.paste(bg) copies every band, then the darkening
\* overlay of alpha 100 is composited
NaturePaste ==
    /\ pc = "bg_paste"
    /\ card' = [card EXCEPT !.bg = bg,
                            !.alpha = CompositeAlpha(bg.alpha, 100),
                            !.layers = Append(@, "background")]
    /\ pc' = "mask"
    /\ UNCHANGED <<cache, installed, fnVars, dbVars, req, image_format, img_id, bg, img, txt,
                   response, eff, prev, warmVars>>

\* lines 428-431: card.putalpha(mask) replaces the alpha band by the mask
Mask ==
    /\ pc = "mask"
    /\ card' = [card EXCEPT !.alpha = CardMaskAt("centre"),
                            !.layers = Append(@, "mask")]
    /\ pc' = "glass"
    /\ eff' = [eff EXCEPT !.stages = @ \o <<"Mask">>]
    /\ UNCHANGED <<cache, installed, fnVars, dbVars, req, image_format, img_id, bg,
                   img, txt, response, prev, warmVars>>

\* lines 433-483: the glass panel. The crop of bg, resized, blurred and
\* darkened, keeps the alpha of bg; it is pasted through the panel mask
\* (255 inside the panel), then the tint of alpha 120 is composited on the
\* crop of the card and pasted back through the same mask.
Glass ==
    /\ pc = "glass"
    /\ IF IsNature(req.style)
       THEN LET blurred == PasteMask(card.alpha, bg.alpha, 255)
                tinted == CompositeAlpha(blurred, 120)
            IN  card' = [card EXCEPT !.alpha = PasteMask(blurred, tinted, 255),
                                     !.layers = Append(@, "glass")]
       ELSE UNCHANGED card
    /\ eff' = [eff EXCEPT !.stages =
                  IF IsNature(req.style) THEN Append(@, "RenderGlass") ELSE @]
    /\ pc' = "badge"
    /\ UNCHANGED <<cache, installed, fnVars, dbVars, req, image_format, img_id, bg, img, txt,
                   response, prev, warmVars>>

\* lines 485-547: margins, font sizes by word counts, the badge font and the
\* badge pill drawn at the top of the card
Badge ==
    /\ pc = "badge"
    /\ LET arabic_word_count == WordCount(req.arabic_text)
           translation_word_count ==
               IF Truthy(req.translation_text)
               THEN WordCount(req.translation_text) ELSE 0
           badge_font == get_font(installed)
       IN  IF badge_font = "raise"
           THEN /\ Raise
                /\ UNCHANGED <<txt, card>>
           ELSE /\ txt' = [txt EXCEPT
                             !.sizes = FontTier(arabic_word_count,
                                                translation_word_count),
                             !.fonts = Append(@, badge_font),
                             !.badge_text =
                                 BadgeText(req.surah_english_name,
                                           req.surah_translation, req.surah_number,
                                           req.ayah_number, req.total_ayahs)]
                /\ card' = [card EXCEPT !.layers = Append(@, "badge")]
                /\ pc' = "wrap"
                /\ UNCHANGED response
    /\ eff' = [eff EXCEPT !.font_calls = @ + 1,
                          !.font_fs = @ + FontProbes(LatinFontOptions, installed),
                          !.stages = @ \o <<"ResolveFonts", "RenderText">>]
    /\ UNCHANGED <<cache, installed, fnVars, dbVars, req, image_format, img_id, bg, img,
                   prev, warmVars>>

\* lines 549-570: the Arabic and the translation fonts, and the wrapped lines
\* of both texts against content_width = card_width - 2 * margin_x;
\* wrap_arabic_text measures test_line, built from the words of arabic_text
\* as received
Wrap ==
    /\ pc = "wrap"
    /\ LET content_width == card.size[1] - 2 * 120
           arabic_font == get_arabic_font(installed)
           translation_font == get_font(installed)
       IN  IF arabic_font = "raise" \/ translation_font = "raise"
           THEN /\ Raise
                /\ UNCHANGED txt
           ELSE /\ txt' = [txt EXCEPT
                             !.fonts = @ \o <<arabic_font, translation_font>>,
                             !.measured = StoredForm,
                             !.arabic_lines =
                                 wrap_arabic_text(req.arabic_text, txt.sizes[1],
                                                  content_width),
                             !.trans_lines =
                                 IF Truthy(req.translation_text)
                                 THEN wrap_english_text(req.translation_text,
                                                        txt.sizes[2], content_width)
                                 ELSE <<>>]
                /\ pc' = "draw"
                /\ UNCHANGED response
    /\ eff' = [eff EXCEPT !.font_calls = @ + 2,
                          !.font_fs = @ + FontProbes(ArabicFontOptions, installed)
                                        + FontProbes(LatinFontOptions, installed),
                          !.stages = @ \o <<"ShapeAndWrap", "PlanLayout">>]
    /\ UNCHANGED <<cache, installed, fnVars, dbVars, req, image_format, img_id, bg, card, img,
                   prev, warmVars>>

\* lines 572-644: the verse lines as wrap_arabic_text returned them, the
\* divider, the translation lines when there are any, the footer
Draw ==
    /\ pc = "draw"
    /\ LET footer_font == get_font(installed)
       IN  IF footer_font = "raise"
           THEN /\ Raise
                /\ UNCHANGED <<txt, card>>
           ELSE /\ txt' = [txt EXCEPT !.fonts = Append(@, footer_font),
                                       !.drawn = IF txt.arabic_lines # <<>>
                                                 THEN txt.measured ELSE "none",
                                       !.layout =
                                           Layout(card.size[2], txt.sizes,
                                                  Len(txt.arabic_lines),
                                                  Len(txt.trans_lines))]
                /\ card' = [card EXCEPT
                              !.layers =
                                  @ \o <<"verse", "divider">>
                                    \o (IF Truthy(req.translation_text)
                                           /\ txt.trans_lines # <<>>
                                        THEN <<"translation">> ELSE <<>>)
                                    \o <<"footer">>]
                /\ pc' = "composite"
                /\ UNCHANGED response
    /\ eff' = [eff EXCEPT !.font_calls = @ + 1,
                          !.font_fs = @ + FontProbes(LatinFontOptions, installed),
                          !.stages = Append(@, "RenderText")]
    /\ UNCHANGED <<cache, installed, fnVars, dbVars, req, image_format, img_id, bg, img,
                   prev, warmVars>>

\* lines 646-651: img.paste(card, (SHADOW_EXPAND, SHADOW_EXPAND), card); the
\* margin sample lies outside the pasted box
Composite ==
    /\ pc = "composite"
    /\ img' = [img EXCEPT
                 !.alpha = [@ EXCEPT !["centre"] = PasteMask(@, card.alpha, card.alpha)],
                 !.layers = Append(@, "card"),
                 !.box = CardBox(card.size)]
    /\ pc' = "encode"
    /\ eff' = [eff EXCEPT !.stages = @ \o <<"Composite">>]
    /\ UNCHANGED <<cache, installed, fnVars, dbVars, req, image_format, img_id, bg,
                   card, txt, response, prev, warmVars>>

\* generate_ayah_image_bytes, lines 690-700, called with format=image_format
Encode ==
    /\ pc = "encode"
    /\ LET codec == Codec(image_format)
       IN  response' =
             [status |-> "Success",
              codec |-> codec,
              channels |-> IF codec = "JPEG" THEN 3 ELSE 4,
              size |-> img.size,
              alpha |-> IF codec = "JPEG" THEN [p \in Samples |-> 255]
                        ELSE img.alpha,
              pixel |-> IF codec = "JPEG" THEN [p \in Samples |-> JpegPixel(img.alpha[p])]
                        ELSE [p \in Samples |-> "image"],
              content |-> <<img, card, txt>>,
              media_type |-> "none"]
    /\ pc' = "respond"
    /\ eff' = [eff EXCEPT !.stages = @ \o <<"Encode">>]
    /\ UNCHANGED <<cache, installed, fnVars, dbVars, req, image_format, img_id, bg,
                   card, img, txt, prev, warmVars>>

\* main.py 2294-2304: the Response with its media type
Respond ==
    /\ pc = "respond"
    /\ response' = [response EXCEPT !.media_type = MediaType(image_format)]
    /\ pc' = "done"
    /\ UNCHANGED <<cache, installed, fnVars, dbVars, req, image_format, img_id, bg, card, img,
                   txt, eff, prev, warmVars>>

\* the request is over; its locals are discarded
Finish ==
    /\ pc = "done"
    /\ pc' = "idle"
    /\ req' = NoRequest
    /\ image_format' = "none"
    /\ img_id' = 0
    /\ bg' = NoBg
    /\ card' = NoCard
    /\ img' = NoImg
    /\ txt' = NoTxt
    /\ response' = NoResponse
    /\ eff' = NoEff
    /\ prev' = NoPrev
    /\ UNCHANGED <<cache, installed, fnVars, dbVars, warmVars>>

\* the same request is sent again; the response just returned is kept for
\* comparison
Replay ==
    /\ pc = "done"
    /\ pc' = "shadow"
    /\ prev' = response
    /\ img_id' = 0
    /\ bg' = NoBg
    /\ card' = NoCard
    /\ img' = NoImg
    /\ txt' = NoTxt
    /\ response' = NoResponse
    /\ eff' = NoEff
    /\ UNCHANGED <<cache, installed, fnVars, dbVars, req, image_format, warmVars>>

\* ------------------------------------------------------------------------
\* preload_backgrounds: the warm thread
\* ------------------------------------------------------------------------
\* lines 287-289 and 268-269: the thread is started, makes the directory
StartWarm ==
    /\ wpc = "off"
    /\ wpc' = "loop"
    /\ widx' = 1
    /\ UNCHANGED <<cache, installed, fnVars, dbVars, pc, req, renderLocals, prev>>

\* lines 271-276: next catalog entry; an existing file is skipped
WarmNext ==
    /\ wpc = "loop"
    /\ IF widx > Len(NATURE_IMAGES)
       THEN /\ wpc' = "finished"
            /\ UNCHANGED widx
       ELSE IF cache[NATURE_IMAGES[widx]] # "absent"
            THEN /\ widx' = widx + 1
                 /\ UNCHANGED wpc
            ELSE /\ wpc' = "fetch"
                 /\ UNCHANGED widx
    /\ UNCHANGED <<cache, installed, fnVars, dbVars, pc, req, renderLocals, prev>>

\* mutant: a failed fetch ends the thread
WarmFetch_gives_up ==
    /\ wpc = "fetch"
    /\ \E outcome \in NetOutcomes :
         IF outcome = "ok"
         THEN /\ wpc' = "save"
              /\ UNCHANGED widx
         ELSE /\ wpc' = "finished"
              /\ UNCHANGED widx
    /\ UNCHANGED <<cache, installed, fnVars, dbVars, pc, req, renderLocals, prev>>

\* lines 278-285: the fetch; anything but a decodable 200 moves on
WarmFetch ==
    /\ wpc = "fetch"
    /\ \E outcome \in NetOutcomes :
         IF outcome = "ok"
         THEN /\ wpc' = "save"
              /\ UNCHANGED widx
         ELSE /\ wpc' = "loop"
              /\ widx' = widx + 1
    /\ UNCHANGED <<cache, installed, fnVars, dbVars, pc, req, renderLocals, prev>>

\* line 282: img.save(cache_path) opens the file ...
WarmSaveBegin ==
    /\ wpc = "save"
    /\ cache' = [cache EXCEPT ![NATURE_IMAGES[widx]] = "partial"]
    /\ wpc' = "saving"
    /\ UNCHANGED <<installed, fnVars, dbVars, pc, req, renderLocals, prev, widx>>

\* ... and completes it
WarmSaveEnd ==
    /\ wpc = "saving"
    /\ \E file \in ClosedFile(RenderIsWriting(NATURE_IMAGES[widx])) :
         cache' = [cache EXCEPT ![NATURE_IMAGES[widx]] = file]
    /\ wpc' = "loop"
    /\ widx' = widx + 1
    /\ UNCHANGED <<installed, fnVars, dbVars, pc, req, renderLocals, prev>>

\* ------------------------------------------------------------------------
\* The Quran database (quran-dump/download.py) and the progress endpoints of
\* backend/main.py
\* ------------------------------------------------------------------------
\* number_of_ayahs of the rows of surahs, in the order of surahs.id: the
\* 114 surahs and 6236 ayahs every text edition of the download holds
SurahLengths ==
    <<
      7, 286, 200, 176, 120, 165, 206, 75, 129, 109, 123, 111,
      43, 52, 99, 128, 111, 110, 98, 135, 112, 78, 118, 64,
      77, 227, 93, 88, 69, 60, 34, 30, 73, 54, 45, 83,
      182, 88, 75, 85, 54, 53, 89, 59, 37, 35, 38, 29,
      18, 45, 60, 49, 62, 55, 78, 96, 29, 22, 24, 13,
      14, 11, 11, 18, 12, 12, 30, 52, 52, 44, 28, 28,
      20, 56, 40, 31, 50, 40, 46, 42, 29, 19, 36, 25,
      22, 17, 19, 26, 30, 20, 15, 21, 11, 8, 8, 19,
      5, 8, 8, 11, 11, 8, 3, 9, 5, 4, 7, 3,
      6, 3, 5, 4, 5, 6 >>

SurahIds == 1..Len(SurahLengths)

\* the positions <<surah_id, number_in_surah>> of the rows of ayahs
Positions ==
    UNION {{<<s, a>> : a \in 1..SurahLengths[s]} : s \in SurahIds}

\* the rows <<position, edition_id>> of ayahs: every edition holds one row
\* for every position (UNIQUE(number, edition_id))
AyahRows(editions) == Positions \X (1..editions)

\* ORDER BY surah_id, number_in_surah
PosBefore(p, q) == p[1] < q[1] \/ (p[1] = q[1] /\ p[2] < q[2])

\* first and last element of a non-empty set of positions in that order
FirstPos(ps) ==
    LET s == CHOOSE s \in {p[1] : p \in ps} : \A p \in ps : s <= p[1]
        a == CHOOSE a \in {p[2] : p \in {q \in ps : q[1] = s}} :
                 \A p \in ps : p[1] = s => a <= p[2]
    IN  <<s, a>>

LastPos(ps) ==
    LET s == CHOOSE s \in {p[1] : p \in ps} : \A p \in ps : s >= p[1]
        a == CHOOSE a \in {p[2] : p \in {q \in ps : q[1] = s}} :
                 \A p \in ps : p[1] = s => a >= p[2]
    IN  <<s, a>>

\* SELECT COUNT(*) FROM ayahs WHERE surah_id < ? OR (surah_id = ? AND
\* number_in_surah < ?): the rows of every edition are counted
CountRowsBefore(p, editions) ==
    Cardinality({row \in AyahRows(editions) : PosBefore(row[1], p)})

\* the result of get_sequential_progress
Progress(count, first) ==
    [sequential_count |-> count, first_incomplete_surah |-> first[1],
     first_incomplete_ayah |-> first[2], total_ayahs |-> TOTAL_AYAHS]

\* get_sequential_progress on the rows of completed_ayahs of the user (a set
\* of positions) and an ayahs table of the given number of editions.
\*   lines 1761-1769: nothing completed
\*   lines 1780-1836: fewer than 5000 completions: the loop over the rows of
\*     ayahs in order adds one for every row whose position is completed and
\*     stops at the first row whose position is not
\*   lines 1837-1875: otherwise the loop runs over the rows in descending
\*     order and stops at the first row whose position is not completed; the
\*     rows before that position are counted
get_sequential_progress(completed_positions, editions) ==
    LET missing == Positions \ completed_positions
    IN  IF completed_positions = {} THEN Progress(0, <<1, 1>>)
        ELSE IF Cardinality(completed_positions) < FORWARD_LIMIT
        THEN IF missing = {}
             THEN Progress(editions * Cardinality(Positions), <<114, 6>>)
             ELSE Progress(CountRowsBefore(FirstPos(missing), editions),
                           FirstPos(missing))
        ELSE IF missing = {}
             THEN Progress(TOTAL_AYAHS, <<114, 6>>)
             ELSE Progress(CountRowsBefore(LastPos(missing), editions),
                           LastPos(missing))

\* MIN(column) over a set of rows of ayahs; NULL (here 0) over no row
MinColumn(rows, col) ==
    IF rows = {} THEN 0
    ELSE CHOOSE v \in {row[1][col] : row \in rows} :
             \A row \in rows : v <= row[1][col]

\* start_quran_play on the ayah ids (rows of ayahs) of completed_ayahs:
\*   lines 2075-2080: SELECT MIN(a.surah_id), MIN(a.number_in_surah) FROM
\*     ayahs a WHERE a.id NOT IN (the completed ids)
\*   lines 2082-2085: the same over every row when nothing is completed
\*   lines 2088-2089: 1 for a NULL
start_quran_play(completed_ayah_ids, editions) ==
    LET rows == IF completed_ayah_ids # {}
                THEN AyahRows(editions) \ completed_ayah_ids
                ELSE AyahRows(editions)
        surah_id == MinColumn(rows, 1)
        ayah_num == MinColumn(rows, 2)
    IN  [start_surah |-> IF surah_id # 0 THEN surah_id ELSE 1,
         start_ayah |-> IF ayah_num # 0 THEN ayah_num ELSE 1]

\* the values of number_in_surah in the rows of ayahs WHERE surah_id = ?
NumbersInSurah(surah_id) ==
    IF surah_id \in SurahIds THEN 1..SurahLengths[surah_id] ELSE {}

\* ORDER BY number_in_surah LIMIT 1 over the rows of a surah with the given
\* numbers: the rows with the least number, one for each edition; which of
\* them comes first is not determined
FirstInSurah(surah_id, numbers, editions) ==
    IF numbers = {} THEN {}
    ELSE {<<surah_id, CHOOSE m \in numbers : \A k \in numbers : m <= k>>}
             \X (1..editions)

\* mutant: the next surah is never looked up
get_next_quran_ayah_same_surah(surah_id, ayah_number, editions) ==
    FirstInSurah(surah_id, {a \in NumbersInSurah(surah_id) : a > ayah_number}, editions)

\* get_next_quran_ayah: the rows one of which is returned, none for
\* {"is_last": True}
\*   lines 2115-2131: the next ayah of the surah
\*   lines 2134-2137: SELECT MIN(id) FROM surahs WHERE id > ?
\*   lines 2139-2156: the first ayah of that surah
get_next_quran_ayah(surah_id, ayah_number, editions) ==
    LET next_in_surah ==
            FirstInSurah(surah_id,
                         {a \in NumbersInSurah(surah_id) : a > ayah_number}, editions)
        later == {s \in SurahIds : s > surah_id}
        next_surah_id == IF later = {} THEN 0
                         ELSE CHOOSE s \in later : \A t \in later : s <= t
        first_ayah == FirstInSurah(next_surah_id, NumbersInSurah(next_surah_id),
                                   editions)
    IN  IF next_in_surah # {} THEN next_in_surah
        ELSE IF next_surah_id # 0 THEN first_ayah
        ELSE {}

\* ------------------------------------------------------------------------
\* Functions of the renderer called on their own, on arguments drawn from
\* bounded sets
\* ------------------------------------------------------------------------
\* word counts on both sides of the thresholds of lines 497 and 502
ArabicWordCounts == {0, 20, 21, 30, 31, 45}

TranslationWordCounts == {0, 40, 41, 60, 61, 85}

\* the word counts of two requests
TierCalls ==
    [fn : {"FontTier"},
     arabic_words : ArabicWordCounts, translation_words : TranslationWordCounts,
     arabic_words2 : ArabicWordCounts, translation_words2 : TranslationWordCounts]

\* token widths in ems: the empty token (two spaces in a row), two words
\* and a token wider than every card at every font size
TokenWidths == {0, 5, 9, 50}

Texts == UNION {[1..n -> TokenWidths] : n \in 1..MaxWords}

\* max_width is content_width = card_width - 2 * margin_x (lines 487, 491)
ContentWidths ==
    {CardSize(square, portrait)[1] - 2 * 120 : square \in BOOLEAN, portrait \in BOOLEAN}

\* a text, the size of its font and the width to wrap it to
WrapCalls ==
    [fn : {"wrap_arabic_text"}, text : Texts, size : {84, 96, 108},
     max_width : ContentWidths]
    \cup
    [fn : {"wrap_english_text"}, text : Texts, size : {48, 57, 66},
     max_width : ContentWidths]

\* the surah columns and the ayah number the endpoints pass on
BadgeCalls ==
    [fn : {"badge_text"},
     surah_english_name : {"", "Al-Faatiha"},
     surah_translation : {"", "The Opening"},
     surah_number : {1, 114}, ayah_number : {1, 7}, total_ayahs : {0, 7}]

\* a text of n words of 2 ems each
Words(n) == [i \in 1..n |-> 2]

\* lengths of verses and of translations, in words; 0 is no translation
VerseLengths == {1, 12, 25, 45, 128}

TranslationLengths == {0, 20, 50, 85, 250}

\* the aspect mode and the two texts of a request
LayoutCalls ==
    [fn : {"layout"}, square : BOOLEAN, portrait : BOOLEAN,
     arabic_text : {Words(n) : n \in VerseLengths},
     translation_text : {IF n = 0 THEN <<0>> ELSE Words(n) : n \in TranslationLengths}]

Calls == TierCalls \cup WrapCalls \cup BadgeCalls \cup LayoutCalls

InitFn ==
    /\ cache = [id \in AssetIds |-> "absent"]
    /\ installed = {}
    /\ pc = "idle"
    /\ req = NoRequest
    /\ image_format = "none"
    /\ img_id = 0
    /\ bg = NoBg
    /\ card = NoCard
    /\ img = NoImg
    /\ txt = NoTxt
    /\ response = NoResponse
    /\ eff = NoEff
    /\ prev = NoPrev
    /\ wpc = "off"
    /\ widx = 0
    /\ replay_stats = <<>>
    /\ plays = NoPlays
    /\ call \in Calls
    /\ ret = NoRet

\* lines 493-509 on the word counts of each of the two requests
ApplyFontTier ==
    /\ call.fn = "FontTier"
    /\ ret = NoRet
    /\ ret' = [status |-> "returned",
               tier |-> FontTier(call.arabic_words, call.translation_words),
               tier2 |-> FontTier(call.arabic_words2, call.translation_words2)]
    /\ UNCHANGED <<cache, installed, pc, req, renderLocals, prev, warmVars, dbVars, call>>

\* lines 292-313
ApplyWrapArabic ==
    /\ call.fn = "wrap_arabic_text"
    /\ ret = NoRet
    /\ ret' = [status |-> "returned",
               lines |-> wrap_arabic_text(call.text, call.size, call.max_width)]
    /\ UNCHANGED <<cache, installed, pc, req, renderLocals, prev, warmVars, dbVars, call>>

\* lines 316-337
ApplyWrapEnglish ==
    /\ call.fn = "wrap_english_text"
    /\ ret = NoRet
    /\ ret' = [status |-> "returned",
               lines |-> wrap_english_text(call.text, call.size, call.max_width)]
    /\ UNCHANGED <<cache, installed, pc, req, renderLocals, prev, warmVars, dbVars, call>>

\* lines 514-523
ApplyBadgeText ==
    /\ call.fn = "badge_text"
    /\ ret = NoRet
    /\ ret' = [status |-> "returned",
               badge_text |-> BadgeText(call.surah_english_name,
                                        call.surah_translation, call.surah_number,
                                        call.ayah_number, call.total_ayahs)]
    /\ UNCHANGED <<cache, installed, pc, req, renderLocals, prev, warmVars, dbVars, call>>

\* lines 361-367 and 485-628 without the drawing: card size, font tier,
\* wrapped lines of both texts, and the values of current_y
ApplyLayout ==
    /\ call.fn = "layout"
    /\ ret = NoRet
    /\ LET size == CardSize(call.square, call.portrait)
           content_width == size[1] - 2 * 120
           sizes == FontTier(WordCount(call.arabic_text),
                             IF Truthy(call.translation_text)
                             THEN WordCount(call.translation_text) ELSE 0)
           arabic_lines == wrap_arabic_text(call.arabic_text, sizes[1], content_width)
           trans_lines == IF Truthy(call.translation_text)
                          THEN wrap_english_text(call.translation_text, sizes[2],
                                                 content_width)
                          ELSE <<>>
       IN  ret' = [status |-> "returned", sizes |-> sizes,
                   arabic_lines |-> Len(arabic_lines),
                   trans_lines |-> Len(trans_lines),
                   layout |-> Layout(size[2], sizes, Len(arabic_lines),
                                     Len(trans_lines))]
    /\ UNCHANGED <<cache, installed, pc, req, renderLocals, prev, warmVars, dbVars, call>>

\* ------------------------------------------------------------------------
\* Functions of the progress endpoints called on their own
\* ------------------------------------------------------------------------
\* the completions of a user: every position before upto, except the gaps.
\* Before 55:1 lie 4901 positions, before 56:22 lie 5000, before 57:1 lie
\* 5075; <<115, 1>> is beyond the last position.
Uptos == {<<1, 1>>, <<1, 5>>, <<3, 1>>, <<55, 1>>, <<56, 22>>, <<57, 1>>, <<115, 1>>}

GapCandidates == {<<1, 3>>, <<2, 286>>, <<20, 5>>}

CompletedPositions(upto, gaps) ==
    {p \in Positions : PosBefore(p, upto)} \ gaps

ProgressCalls ==
    [fn : {"get_sequential_progress"}, upto : Uptos, gaps : SUBSET GapCandidates,
     editions : 1..NumEditions]

\* the completions of a user who reads one edition
StartCalls ==
    {c \in [fn : {"start_quran_play"}, upto : {<<1, 1>>, <<1, 2>>, <<1, 5>>, <<3, 1>>, <<115, 1>>},
            gaps : SUBSET {<<1, 3>>, <<2, 286>>},
            editions : 1..NumEditions, edition : 1..NumEditions] :
        c.edition <= c.editions}

QuranCalls == ProgressCalls \cup StartCalls

\* no render and no warm thread
NoRender ==
    /\ cache = [id \in AssetIds |-> "absent"]
    /\ installed = {}
    /\ pc = "idle"
    /\ req = NoRequest
    /\ image_format = "none"
    /\ img_id = 0
    /\ bg = NoBg
    /\ card = NoCard
    /\ img = NoImg
    /\ txt = NoTxt
    /\ response = NoResponse
    /\ eff = NoEff
    /\ prev = NoPrev
    /\ wpc = "off"
    /\ widx = 0
    /\ replay_stats = <<>>
    /\ plays = NoPlays

InitQuran ==
    /\ NoRender
    /\ call \in QuranCalls
    /\ ret = NoRet

\* main.py lines 2062-2105
ApplyStartQuranPlay ==
    /\ call.fn = "start_quran_play"
    /\ ret = NoRet
    /\ ret' = [status |-> "returned",
               result |-> start_quran_play(
                              CompletedPositions(call.upto, call.gaps) \X {call.edition},
                              call.editions)]
    /\ UNCHANGED <<cache, installed, pc, req, renderLocals, prev, warmVars, dbVars, call>>

\* main.py lines 1742-1888
ApplySequentialProgress ==
    /\ call.fn = "get_sequential_progress"
    /\ ret = NoRet
    /\ ret' = [status |-> "returned",
               result |-> get_sequential_progress(
                              CompletedPositions(call.upto, call.gaps), call.editions)]
    /\ UNCHANGED <<cache, installed, pc, req, renderLocals, prev, warmVars, dbVars, call>>

\* ------------------------------------------------------------------------
\* Full Quran play: the client asks for the ayah after the one it has played
\* until it is told that there is none
\* ------------------------------------------------------------------------
\* the play starts at 1:1; n is the number of ayahs played
InitPlay ==
    /\ NoRender
    /\ \E editions \in 1..NumEditions :
         call = [fn |-> "get_next_quran_ayah", surah_id |-> 1, ayah_number |-> 1,
                 editions |-> editions, n |-> 1]
    /\ ret = NoRet

\* main.py lines 2108-2161
NextQuranAyah ==
    /\ call.fn = "get_next_quran_ayah"
    /\ ret = NoRet
    /\ LET rows == get_next_quran_ayah(call.surah_id, call.ayah_number, call.editions)
       IN  IF rows = {}
           THEN ret' = [status |-> "returned", is_last |-> TRUE, surah_id |-> 0,
                        number_in_surah |-> 0, ayah_id |-> <<0, 0, 0>>]
           ELSE \E row \in rows :
                   ret' = [status |-> "returned", is_last |-> FALSE,
                           surah_id |-> row[1][1], number_in_surah |-> row[1][2],
                           ayah_id |-> <<row[1][1], row[1][2], row[2]>>]
    /\ UNCHANGED <<cache, installed, pc, req, renderLocals, prev, warmVars, dbVars, call>>

\* the client plays the ayah returned and asks for the one after it
PlayReturnedAyah ==
    /\ call.fn = "get_next_quran_ayah"
    /\ ret # NoRet
    /\ ~ret.is_last
    /\ call' = [call EXCEPT !.surah_id = ret.surah_id,
                            !.ayah_number = ret.number_in_surah, !.n = @ + 1]
    /\ ret' = NoRet
    /\ UNCHANGED <<cache, installed, pc, req, renderLocals, prev, warmVars, dbVars>>

\* ------------------------------------------------------------------------
\* end_play_session (main.py lines 1978-2015). The server runs several
\* worker processes (lines 59-61), so the requests of one user are handled
\* side by side; every call of the Supabase client is one statement of the
\* database.
\* ------------------------------------------------------------------------
\* duration_seconds of a request
Durations == {5, 7}

InitReplay ==
    /\ NoRender
    /\ call = NoCall
    /\ ret = NoRet

\* lines 1982-1995: the play session of the request is found and updated
PlayEndBegin(r, d) ==
    /\ plays[r].pc = "not_sent"
    /\ plays' = [plays EXCEPT ![r] = [@ EXCEPT !.pc = "select", !.duration_seconds = d]]
    /\ UNCHANGED <<cache, installed, pc, req, renderLocals, prev, warmVars, fnVars,
                   replay_stats>>

\* line 1998: existing = the rows of the user and the ayah; existing.data[0]
\* is used
PlayEndSelect(r) ==
    /\ plays[r].pc = "select"
    /\ plays' = [plays EXCEPT ![r] =
                    [@ EXCEPT !.pc = "write",
                              !.existing =
                                  IF replay_stats = <<>> THEN NoRow
                                  ELSE [found |-> TRUE,
                                        play_count |-> replay_stats[1].play_count,
                                        total_duration_seconds |->
                                            replay_stats[1].total_duration_seconds]]]
    /\ UNCHANGED <<cache, installed, pc, req, renderLocals, prev, warmVars, fnVars,
                   replay_stats>>

\* lines 2000-2005: every row of the user and the ayah is set to the values
\* read plus this play
PlayEndUpdate(r) ==
    /\ plays[r].pc = "write"
    /\ plays[r].existing.found
    /\ replay_stats' =
           [i \in DOMAIN replay_stats |->
               [play_count |-> plays[r].existing.play_count + 1,
                total_duration_seconds |->
                    plays[r].existing.total_duration_seconds + plays[r].duration_seconds]]
    /\ plays' = [plays EXCEPT ![r].pc = "done"]
    /\ UNCHANGED <<cache, installed, pc, req, renderLocals, prev, warmVars, fnVars>>

\* lines 2006-2013: a row is inserted. The table is defined outside this
\* repository: when a row of the user and the ayah exists by now, the insert
\* adds a second row, or a uniqueness constraint refuses it and the request
\* fails.
PlayEndInsert(r) ==
    /\ plays[r].pc = "write"
    /\ ~plays[r].existing.found
    /\ \/ /\ replay_stats' =
                Append(replay_stats,
                       [play_count |-> 1,
                        total_duration_seconds |-> plays[r].duration_seconds])
          /\ plays' = [plays EXCEPT ![r].pc = "done"]
       \/ /\ replay_stats # <<>>
          /\ plays' = [plays EXCEPT ![r].pc = "failed"]
          /\ UNCHANGED replay_stats
    /\ UNCHANGED <<cache, installed, pc, req, renderLocals, prev, warmVars, fnVars>>

\* ------------------------------------------------------------------------
\* Specification
\* ------------------------------------------------------------------------
Render ==
    \/ CreateShadow
    \/ Background
    \/ BgChoose
    \/ BgCache
    \/ BgFetch
    \/ BgSaveBegin
    \/ BgSaveEnd
    \/ BgFallback
    \/ NaturePaste
    \/ Mask
    \/ Glass
    \/ Badge
    \/ Wrap
    \/ Draw
    \/ Composite
    \/ Encode
    \/ Respond
    \/ Finish

\* renders of every request, one after the other, on every initial cache
Next ==
    \/ \E ep \in Endpoints, rq \in Requests : Request(ep, rq)
    \/ Render

Spec == Init /\ [][Next]_vars

\* renders, repeated or not, while the warm thread runs
NextWarm ==
    \/ \E ep \in Endpoints, rq \in WarmRequests : Request(ep, rq)
    \/ Render
    \/ Replay
    \/ StartWarm
    \/ WarmNext
    \/ WarmFetch
    \/ WarmSaveBegin
    \/ WarmSaveEnd

SpecWarm == Init /\ [][NextWarm]_vars

\* the steps of the thread started at line 288
WarmThread ==
    \/ WarmNext
    \/ WarmFetch
    \/ WarmSaveBegin
    \/ WarmSaveEnd

\* a server with the fonts of the repository, any state of bg_cache
InitPreload ==
    /\ Init
    /\ installed = {"AmiriQuran-Regular.ttf", "InstrumentSerif-Regular.ttf"}

\* the warm thread beside renders of the photographic style, the one that
\* reads and writes bg_cache
NextPreload ==
    \/ \E ep \in Endpoints, rq \in PreloadRequests : Request(ep, rq)
    \/ Render
    \/ Replay
    \/ StartWarm
    \/ WarmThread

\* the thread is scheduled again and again: requests.get returns or raises
\* within its timeout (line 279) and every other statement of _preload
\* returns
SpecPreload == InitPreload /\ [][NextPreload]_vars /\ WF_vars(WarmThread)

\* calls of single functions
NextFn ==
    \/ ApplyFontTier
    \/ ApplyWrapArabic
    \/ ApplyWrapEnglish
    \/ ApplyBadgeText
    \/ ApplyLayout

SpecFn == InitFn /\ [][NextFn]_vars

\* calls of single functions of the progress endpoints
NextQuran ==
    \/ ApplySequentialProgress
    \/ ApplyStartQuranPlay

SpecQuran == InitQuran /\ [][NextQuran]_vars

\* play-end requests of one user for one ayah
NextReplay ==
    \/ \E r \in PlayIds, d \in Durations : PlayEndBegin(r, d)
    \/ \E r \in PlayIds : PlayEndSelect(r)
    \/ \E r \in PlayIds : PlayEndUpdate(r)
    \/ \E r \in PlayIds : PlayEndInsert(r)

SpecReplay == InitReplay /\ [][NextReplay]_vars

\* full Quran play: every request is answered and the client goes on asking
NextPlay ==
    \/ NextQuranAyah
    \/ PlayReturnedAyah

SpecPlay ==
    InitPlay /\ [][NextPlay]_vars /\ WF_vars(NextQuranAyah) /\ WF_vars(PlayReturnedAyah)

\* ------------------------------------------------------------------------
\* Properties
\* ------------------------------------------------------------------------
Done == pc = "done"

Succeeded == pc = "done" /\ response.status = "Success"

\* C1: the image returned has the size of the card of its aspect mode plus
\* SHADOW_EXPAND on each side: 2800x1750 for landscape, 2560x2560 for square,
\* 2020x3280 for portrait (portrait wins over square), whatever the texts,
\* the style, the cache and the format are.
C1_CanvasSizeByAspect ==
    Succeeded =>
        response.size =
            IF req.portrait THEN <<2020, 3280>>
            ELSE IF req.square THEN <<2560, 2560>>
            ELSE <<2800, 1750>>

\* a portrait JPEG of a nature card drawn on the fallback gradient
C1_Witness ==
    /\ Succeeded
    /\ req.portrait /\ req.style = "nature" /\ card.bg.kind = "fallback"
    /\ response.codec = "JPEG" /\ response.size = <<2020, 3280>>

\* C2: every request ends in Success whatever the fonts, the cache and the
\* network do, and a nature render whose fetch fails is drawn on the
\* procedural gradient.
C2_AlwaysSuccess ==
    /\ Done => response.status = "Success"
    /\ (Done /\ req.style = "nature"
             /\ eff.outcome \in {"non200", "raise", "undecodable"})
          => card.bg.kind = "fallback"

\* no font loads, the cache file is corrupt and the fetch raises
C2_Witness ==
    /\ Succeeded
    /\ installed = {} /\ req.style = "nature"
    /\ eff.seen = "corrupt" /\ eff.outcome = "raise"
    /\ card.bg.kind = "fallback"

\* C3 as stated: a render issues no HTTP request.
C3_NoNetworkOnRender == eff.net = 0

\* C3 amended: a render issues at most one HTTP request, and only if its
\* style is nature and the cache file of the chosen asset is absent or does
\* not decode; the fallback gradient is taken only after that request failed.
C3_FetchOnlyOnMiss ==
    /\ eff.net <= 1
    /\ eff.net = 1 => (req.style = "nature" /\ eff.seen \in {"absent", "corrupt", "partial"})
    /\ (pc \in {"bg_paste", "bg_save", "bg_fallback"} /\ eff.seen \in {"absent", "corrupt", "partial"})
          => eff.net = 1
    /\ card.bg.kind = "fallback" => eff.outcome \in {"non200", "raise", "undecodable"}
    /\ (Done /\ eff.seen = "ok") => (eff.net = 0 /\ card.bg.kind = "photo")

\* a render that found its asset missing, fetched it and used it
C3_Witness ==
    /\ Succeeded
    /\ eff.seen = "absent" /\ eff.net = 1 /\ eff.outcome = "ok"
    /\ card.bg.kind = "photo"

\* C4 as stated: no step of a render changes the cache.
C4_RenderLeavesCache == [][cache' = cache]_vars

\* C4 amended: a step of a render changes the cache only when the style is
\* nature, the cache file of the chosen asset was absent or did not decode
\* and the fetch returned a decodable image; it then changes the entry of the
\* chosen asset alone.
C4_RenderWritesOnlyFetched ==
    [][cache' # cache =>
          /\ req.style = "nature"
          /\ eff.seen \in {"absent", "corrupt", "partial"}
          /\ eff.outcome = "ok"
          /\ \A id \in AssetIds : id # img_id => cache'[id] = cache[id]]_vars

\* a render has replaced a corrupt cache file by the fetched image
C4_Witness ==
    /\ Succeeded
    /\ eff.seen = "corrupt" /\ eff.writes = {img_id} /\ cache[img_id] = "ok"

\* C5 as stated: a style outside {classic, nature} is rejected before any
\* rendering work.
C5_UnknownStyleRejected ==
    req.style \notin {"classic", "nature"} =>
        /\ ~eff.drawn
        /\ Done => response.status = "Rejected"

\* C5 amended: a style outside {classic, nature} is rendered as classic: the
\* gradient background, no glass panel, no cache access, no HTTP request.
C5_UnknownStyleIsClassic ==
    (pc # "idle" /\ req.style \notin {"classic", "nature"}) =>
        /\ ~eff.cache_access /\ eff.net = 0 /\ img_id = 0
        /\ Done => /\ response.status = "Success"
                   /\ card.bg.kind = "gradient"
                   /\ card.layers = <<"background", "mask", "badge", "verse",
                                      "divider">>
                                    \o (IF Truthy(req.translation_text)
                                        THEN <<"translation">> ELSE <<>>)
                                    \o <<"footer">>

C5_Witness == Succeeded /\ req.style = "neon" /\ card.bg.kind = "gradient"

\* C6 as stated: a format other than png or jpeg is rejected.
C6_UnknownFormatRejected ==
    (Done /\ Lower(req.format) \notin {"png", "jpeg", "jpg"}) =>
        response.status = "Rejected"

\* C6 amended: a format other than png, jpg or jpeg (in any letter case) is
\* answered with PNG bytes and the MIME type image/png.
C6_UnknownFormatIsPng ==
    (Done /\ Lower(req.format) \notin {"png", "jpeg", "jpg"}) =>
        /\ response.status = "Success"
        /\ response.codec = "PNG" /\ response.channels = 4
        /\ response.media_type = "image/png"

C6_Witness == Succeeded /\ req.format = "gif" /\ response.codec = "PNG"

\* C7 as stated: an empty Arabic text is rejected.
C7_EmptyVerseRejected ==
    (Done /\ req.arabic_text = <<0>>) => response.status = "Rejected"

\* C7 amended: an empty Arabic text is rendered: the card is returned with
\* no verse line, the divider and the footer drawn.
C7_EmptyVerseIsRendered ==
    (Done /\ req.arabic_text = <<0>>) =>
        /\ response.status = "Success"
        /\ txt.arabic_lines = <<>>
        /\ response.size = CanvasSize(card.size)
        /\ \E i \in DOMAIN card.layers : card.layers[i] = "divider"

C7_Witness == Succeeded /\ req.arabic_text = <<0>> /\ txt.arabic_lines = <<>>

\* C8: the MIME type returned names the codec the bytes were written with.
C8_MimeNamesCodec ==
    Succeeded =>
        /\ response.media_type = "image/jpeg" <=> response.codec = "JPEG"
        /\ response.media_type = "image/png" <=> response.codec = "PNG"

\* C9: PNG output has four channels, alpha 0 in the margin and 255 on the
\* card; JPEG output has three channels and shows the flatten colour where
\* the source was transparent.
C9_AlphaByFormat ==
    Succeeded =>
        /\ response.codec = "PNG" =>
              /\ response.channels = 4
              /\ response.alpha["margin"] = 0
              /\ response.alpha["centre"] = 255
        /\ response.codec = "JPEG" =>
              /\ response.channels = 3
              /\ \A p \in Samples :
                    img.alpha[p] = 0 => response.pixel[p] = FlattenColor

\* C10: a classic render repeated gives the response of the first render,
\* and takes no random choice and no look at the cache.
C10_ClassicDeterministic ==
    (pc # "idle" /\ req.style = "classic") =>
        /\ img_id = 0 /\ ~eff.cache_access
        /\ (Done /\ prev # NoPrev) => response = prev

\* a classic render repeated while the warm thread was filling the cache
C10_Witness ==
    /\ Succeeded /\ req.style = "classic"
    /\ prev # NoPrev /\ prev.status = "Success"
    /\ wpc = "finished" /\ \E id \in AssetIds : cache[id] = "ok"

Returned(fn) == call.fn = fn /\ ret # NoRet

\* C11: the font tier is monotonic: of two requests of which the second has
\* at least as many verse words and at least as many translation words, the
\* second gets an Arabic size, a translation size and a scale no greater
\* than the first; 45 verse words with 85 translation words get the
\* smallest tier.
C11_TierMonotonic ==
    Returned("FontTier") =>
        /\ (call.arabic_words <= call.arabic_words2
              /\ call.translation_words <= call.translation_words2)
             => \A i \in 1..3 : ret.tier2[i] <= ret.tier[i]
        /\ (call.arabic_words2 = 45 /\ call.translation_words2 = 85)
             => ret.tier2 = <<84, 48, 80>>

\* a request at the thresholds (20, 40) gets the largest tier and the
\* request of 45 and 85 words the smallest
C11_Witness ==
    /\ Returned("FontTier")
    /\ call.arabic_words = 20 /\ call.translation_words = 40
    /\ call.arabic_words2 = 45 /\ call.translation_words2 = 85
    /\ ret.tier = <<108, 66, 100>> /\ ret.tier2 = <<84, 48, 80>>

WrapReturned == Returned("wrap_arabic_text") \/ Returned("wrap_english_text")

\* C12 as stated: every line returned by wrap_arabic_text or
\* wrap_english_text measures at most the maximum width passed in.
C12_LinesFit ==
    WrapReturned =>
        \A i \in DOMAIN ret.lines :
            MeasureWidth(ret.lines[i], call.size) <= call.max_width

\* C12 amended: every returned line of more than one token measures at most
\* the maximum width; a returned line is wider only when it is one token
\* that is wider than the maximum width by itself.
C12_LinesFitButWideToken ==
    WrapReturned =>
        \A i \in DOMAIN ret.lines :
            LET line == ret.lines[i]
            IN  \/ MeasureWidth(line, call.size) <= call.max_width
                \/ /\ Len(line) = 1
                   /\ line[1] * call.size > call.max_width
                   /\ \E j \in DOMAIN call.text : call.text[j] = line[1]

\* a text wrapped to two lines: two words that fit together, then the wide
\* token alone on a line wider than the maximum width
C12_Witness ==
    /\ Returned("wrap_arabic_text")
    /\ call.text = <<5, 9, 50>> /\ call.size = 108 /\ call.max_width = 1920
    /\ ret.lines = <<(<<5, 9>>), (<<50>>)>>
    /\ MeasureWidth(ret.lines[2], call.size) > call.max_width

\* C13: on the Arabic verse path the text is in joined presentation forms
\* and in visual order when its width is measured, and the lines drawn are
\* those reshaped, reordered strings.
C13_ShapedBeforeMeasured ==
    /\ txt.measured \in {"none", "presentation_forms_visual_order"}
    /\ txt.drawn \in {"none", "presentation_forms_visual_order"}

\* C14: a background asset is immutable once stored: no step of a render or
\* of the warm thread rewrites, replaces or removes a cache entry that
\* exists, whether it decodes or not.
C14_StoredAssetImmutable ==
    [][\A id \in AssetIds :
          cache[id] \in {"ok", "corrupt"} => cache'[id] = cache[id]]_vars

CardPasted == \E i \in DOMAIN img.layers : img.layers[i] = "card"

\* C16: in every aspect mode the card rectangle pasted on the canvas lies
\* inside the canvas, at distance SHADOW_EXPAND (200) from each of its left,
\* top, right and bottom edges.
C16_UniformCardMargin ==
    CardPasted =>
        /\ img.box[3] - img.box[1] = card.size[1]
        /\ img.box[4] - img.box[2] = card.size[2]
        /\ 0 <= img.box[1] /\ img.box[3] <= img.size[1]
        /\ 0 <= img.box[2] /\ img.box[4] <= img.size[2]
        /\ img.box[1] = 200 /\ img.size[1] - img.box[3] = 200
        /\ img.box[2] = 200 /\ img.size[2] - img.box[4] = 200

\* a portrait card on its canvas of 2020 x 3280
C16_Witness ==
    /\ Succeeded /\ req.portrait /\ req.style = "nature"
    /\ img.size = <<2020, 3280>> /\ img.box = <<200, 200, 1820, 3080>>

\* C17: the badge text is the name part, two spaces, a bullet, two spaces
\* and the ayah part. The ayah part is 'Ayah N/total' when total_ayahs > 0
\* and 'Ayah N' when it is 0; the name part is 'English (Translation)' when
\* both are non-empty, the English name when it alone is non-empty, and
\* 'Surah <number>' when the English name is empty.
C17_BadgeText ==
    Returned("badge_text") =>
        \E name \in {"Al-Faatiha (The Opening)", "Al-Faatiha", "Surah 1", "Surah 114"},
           ayah \in {"Ayah 1", "Ayah 7", "Ayah 1/7", "Ayah 7/7"} :
            /\ ret.badge_text = name \o BULLET_SEP \o ayah
            /\ (call.total_ayahs > 0) <=> ayah \in {"Ayah 1/7", "Ayah 7/7"}
            /\ (call.ayah_number = 1) <=> ayah \in {"Ayah 1", "Ayah 1/7"}
            /\ (call.surah_english_name # "" /\ call.surah_translation # "")
                  <=> name = "Al-Faatiha (The Opening)"
            /\ (call.surah_english_name # "" /\ call.surah_translation = "")
                  <=> name = "Al-Faatiha"
            /\ (call.surah_english_name = "" /\ call.surah_number = 1)
                  <=> name = "Surah 1"
            /\ (call.surah_english_name = "" /\ call.surah_number = 114)
                  <=> name = "Surah 114"

\* no English name, a translation of the name, and no total
C17_Witness ==
    /\ Returned("badge_text")
    /\ call.surah_english_name = "" /\ call.surah_translation = "The Opening"
    /\ call.surah_number = 114 /\ call.ayah_number = 7 /\ call.total_ayahs = 0
    /\ ret.badge_text = "Surah 114  <U+2022>  Ayah 7"

\* C18: for every request the y position reached after the last text line
\* drawn is at most the card height minus the bottom margin.
C18_TextInsideMargins ==
    Returned("layout") =>
        ret.layout.y_text <= ret.layout.card_height - ret.layout.margin_bottom

\* C19 as stated: no render goes to the filesystem for a font.
C19_NoFontFilesystemOnRender == eff.font_fs = 0

\* C19 amended: every font handle of a render (badge, verse, translation,
\* footer) comes from a call of get_font or get_arabic_font made by that
\* render, and every such call goes to the filesystem at least once; a
\* render that succeeds has made four such calls.
C19_FontsProbedPerRender ==
    /\ Len(txt.fonts) = eff.font_calls
    /\ eff.font_fs >= eff.font_calls
    /\ Succeeded => eff.font_calls = 4
    /\ (Succeeded /\ installed = {}) =>
          eff.font_fs = 3 * 2 * Len(LatinFontOptions) + 2 * Len(ArabicFontOptions)

\* a render on an installation whose bundled fonts load: two looks at the
\* filesystem for each of the four handles
C19_Witness ==
    /\ Succeeded /\ installed # {}
    /\ txt.fonts = <<"InstrumentSerif-Regular.ttf", "AmiriQuran-Regular.ttf",
                     "InstrumentSerif-Regular.ttf", "InstrumentSerif-Regular.ttf">>
    /\ eff.font_calls = 4 /\ eff.font_fs = 8

\* C20: a render goes through the stages in the order Validate, resolve
\* theme and fonts, shape and wrap, plan layout, render background, render
\* glass, render text and decoration, mask and composite, encode, each at
\* most once and never back to an earlier one: of two things a render has
\* done, the later belongs to a later stage (the mask and the composite are
\* the two parts of one stage). In particular wrapping and layout come
\* before the background, and the mask after the glass panel and the text.
C20_StagesInOrder ==
    LET rank == [stage \in {"ResolveFonts", "ShapeAndWrap", "PlanLayout",
                            "RenderBackground", "RenderGlass", "RenderText",
                            "Mask", "Composite", "Encode"} |->
                    CASE stage = "ResolveFonts" -> 2
                      [] stage = "ShapeAndWrap" -> 3
                      [] stage = "PlanLayout" -> 4
                      [] stage = "RenderBackground" -> 5
                      [] stage = "RenderGlass" -> 6
                      [] stage = "RenderText" -> 7
                      [] stage = "Mask" -> 8
                      [] stage = "Composite" -> 8
                      [] stage = "Encode" -> 9]
    IN  \A i, j \in DOMAIN eff.stages :
            i < j => \/ rank[eff.stages[i]] < rank[eff.stages[j]]
                     \/ (eff.stages[i] = "Mask" /\ eff.stages[j] = "Composite")

\* C21: wrapping is greedy. A token is added to the current line only when
\* the line with it measures at most max_width, so every line of more than
\* one token fits; and a line is closed only when the next token does not
\* fit, so every line that is followed by another one, joined by a space
\* with the first token of that next line, measures more than max_width.
C21_GreedyWrap ==
    WrapReturned =>
        /\ \A i \in DOMAIN ret.lines :
              Len(ret.lines[i]) > 1 =>
                  MeasureWidth(ret.lines[i], call.size) <= call.max_width
        /\ \A i \in 1..(Len(ret.lines) - 1) :
              MeasureWidth(Append(ret.lines[i], ret.lines[i + 1][1]), call.size)
                  > call.max_width

\* two words that fit together, and a third that did not fit with them
C21_Witness ==
    /\ Returned("wrap_english_text")
    /\ call.text = <<9, 9, 9>> /\ call.size = 66 /\ call.max_width = 1380
    /\ ret.lines = <<(<<9, 9>>), (<<9>>)>>

\* C22: wrapping neither loses, splits nor reorders words: the non-empty
\* tokens read across the returned lines are those of the text, in the same
\* order; no returned line is empty, and a text without a non-empty token
\* gives no line; a token wider than max_width is the only token of its
\* line.
C22_WrapKeepsWords ==
    WrapReturned =>
        LET IsWord(w) == w # 0
        IN  /\ SelectSeq(TokensOf(ret.lines), IsWord) = SelectSeq(call.text, IsWord)
            /\ \A i \in DOMAIN ret.lines :
                  /\ ret.lines[i] # <<>> /\ ret.lines[i][1] # 0
                  /\ \A k \in DOMAIN ret.lines[i] :
                        ret.lines[i][k] * call.size > call.max_width
                            => Len(ret.lines[i]) = 1
            /\ SelectSeq(call.text, IsWord) = <<>> => ret.lines = <<>>

\* an empty token (two spaces in a row) between two words, then a token
\* wider than the card on a line of its own
C22_Witness ==
    /\ Returned("wrap_arabic_text")
    /\ call.text = <<5, 0, 50>> /\ call.size = 84 /\ call.max_width = 2160
    /\ ret.lines = <<(<<5, 0>>), (<<50>>)>>

\* C23 as stated: when the content is lower than the available height, a
\* third of the slack is inserted above the badge pill, so that the badge
\* moves down with the verse, the divider and the translation; otherwise
\* nothing is inserted.
C23_SlackAboveBadge ==
    Returned("layout") =>
        LET l == ret.layout
            offset == IF l.total_content < l.available_height
                      THEN (l.available_height - l.total_content) \div 3
                      ELSE 0
        IN  /\ l.y_pill = 90 + offset
            /\ l.y_start = l.y_pill + l.pill_height + Scaled(40, ret.sizes[3])

\* C23 amended: the badge pill is always drawn at the top margin; when the
\* content is lower than the available height, a third of the slack
\* (integer division) is inserted between the badge and the first verse
\* line, so that the verse, the divider and the translation move down
\* together; otherwise nothing is inserted.
C23_SlackBelowBadge ==
    Returned("layout") =>
        LET l == ret.layout
        IN  /\ l.y_pill = 90
            /\ l.y_badge = l.y_pill + l.pill_height + Scaled(40, ret.sizes[3])
            /\ l.total_content < l.available_height =>
                  /\ l.y_start - l.y_badge = (l.available_height - l.total_content) \div 3
                  /\ 3 * (l.y_start - l.y_badge) <= l.available_height - l.total_content
            /\ l.total_content >= l.available_height => l.y_start = l.y_badge

\* a short verse with a short translation on the square card: content 472
\* high in 1782, the first verse line is drawn 436 below the badge
C23_Witness ==
    /\ Returned("layout")
    /\ call.square /\ ~call.portrait
    /\ Len(call.arabic_text) = 1 /\ Len(call.translation_text) = 20
    /\ ret.layout.total_content < ret.layout.available_height
    /\ ret.layout.y_pill = 90
    /\ ret.layout.y_start - ret.layout.y_badge > 0

\* C24: the content height used for the centering is the distance the
\* drawing advances from the first verse line to the end of the translation,
\* so that whenever the content is lower than the available height the drawn
\* group ends inside the available area (above the bottom margin and the
\* 50 rows kept for the footer).
C24_ContentHeightIsDrawnHeight ==
    Returned("layout") =>
        LET l == ret.layout
        IN  /\ l.total_content = l.y_end - l.y_start
            /\ l.total_content < l.available_height =>
                  l.y_end <= l.y_badge + l.available_height

\* C25: in every aspect mode the rounded rectangle of the shadow has the
\* size of the card, its top-left corner is on the canvas at
\* (SHADOW_EXPAND + SHADOW_OFFSET_X, SHADOW_EXPAND + SHADOW_OFFSET_Y), and the
\* shadow layer, blur margin included, lies inside the canvas.
C25_ShadowUnderCard ==
    img.layers # <<>> =>
        /\ img.shadow_rect[3] - img.shadow_rect[1] = card.size[1]
        /\ img.shadow_rect[4] - img.shadow_rect[2] = card.size[2]
        /\ img.shadow_rect[1] = SHADOW_EXPAND + SHADOW_OFFSET_X
        /\ img.shadow_rect[2] = SHADOW_EXPAND + SHADOW_OFFSET_Y
        /\ img.shadow_layer[1] >= 0 /\ img.shadow_layer[2] >= 0
        /\ img.shadow_layer[3] <= img.size[1]
        /\ img.shadow_layer[4] <= img.size[2]

\* what one step may do to the warm thread and the cache
WarmStepInOrder ==
    LET n == Len(NATURE_IMAGES)
        moved == <<wpc, widx>>' # <<wpc, widx>>
    IN  \* starting the thread downloads nothing and starts at the first entry
        /\ (wpc = "off" /\ moved) => wpc' = "loop" /\ widx' = 1 /\ cache' = cache
        \* the entries are visited one after the other
        /\ (wpc # "off" /\ moved) => widx' \in {widx, widx + 1}
        \* an entry whose file exists is passed without a fetch
        /\ (wpc = "loop" /\ moved /\ widx <= n /\ cache[NATURE_IMAGES[widx]] # "absent") =>
              wpc' = "loop" /\ widx' = widx + 1 /\ cache' = cache
        /\ (wpc # "fetch" /\ wpc' = "fetch") =>
              widx <= n /\ cache[NATURE_IMAGES[widx]] = "absent"
        \* after a fetch the thread saves or goes to the next entry
        /\ (wpc = "fetch" /\ moved) =>
              \/ wpc' = "save" /\ widx' = widx
              \/ wpc' = "loop" /\ widx' = widx + 1
        \* an entry is left with a file unless its fetch has just failed
        /\ (wpc # "off" /\ widx' = widx + 1) =>
              cache'[NATURE_IMAGES[widx]] # "absent" \/ wpc = "fetch"
        \* no file is ever removed
        /\ \A id \in AssetIds : cache[id] # "absent" => cache'[id] # "absent"
        /\ (moved /\ wpc' = "finished") => widx = n + 1

\* C26: starting the warm task returns without a download; the thread
\* visits the catalog entries once each in catalog order, passes the entries
\* whose file exists, goes on after a failed or non-200 fetch, and
\* terminates after the last entry. An entry is left without a file only by a
\* failed fetch and no file is removed, so if every fetch succeeds every
\* catalog asset has a file at termination.
C26_WarmTaskTerminates ==
    /\ [][WarmStepInOrder]_vars
    /\ [](wpc = "finished" => widx = Len(NATURE_IMAGES) + 1)
    /\ (wpc = "loop") ~> (wpc = "finished")

\* the thread has finished and every asset of the catalog has a file
C26_Witness ==
    /\ wpc = "finished"
    /\ widx = Len(NATURE_IMAGES) + 1
    /\ \A i \in DOMAIN NATURE_IMAGES : cache[NATURE_IMAGES[i]] = "ok"

\* C27: get_sequential_progress returns as first incomplete ayah the earliest
\* position that is not completed, and as sequential_count the number of
\* positions before it, which is at most 6236; this for sets of completions
\* below and above the threshold of 5000 and for every number of editions.
C27_FirstIncompleteIsEarliestGap ==
    Returned("get_sequential_progress") =>
        LET completed == CompletedPositions(call.upto, call.gaps)
            missing == Positions \ completed
            first == FirstPos(missing)
        IN  /\ ret.result.sequential_count <= TOTAL_AYAHS
            /\ missing # {} =>
                  /\ ret.result.first_incomplete_surah = first[1]
                  /\ ret.result.first_incomplete_ayah = first[2]
                  /\ ret.result.sequential_count =
                         Cardinality({p \in Positions : PosBefore(p, first)})

\* C28: start_quran_play returns the earliest position the user has not
\* completed; it never returns a completed position while a later one is
\* not completed.
C28_StartsAtFirstIncomplete ==
    Returned("start_quran_play") =>
        LET completed == CompletedPositions(call.upto, call.gaps)
            missing == Positions \ completed
            start == <<ret.result.start_surah, ret.result.start_ayah>>
        IN  missing # {} =>
                /\ start = FirstPos(missing)
                /\ start \notin completed

\* the answer to the request in flight is right: the position after
\* <<surah_id, ayah_number>> in Quran order, or is_last after the last one
NextAyahIsSuccessor ==
    Returned("get_next_quran_ayah") =>
        LET s == call.surah_id
            a == call.ayah_number
            last == s = Len(SurahLengths) /\ a = SurahLengths[s]
            successor == IF a < SurahLengths[s] THEN <<s, a + 1>> ELSE <<s + 1, 1>>
        IN  /\ <<s, a>> \in Positions
            /\ ret.is_last <=> last
            /\ ~ret.is_last =>
                  /\ <<ret.surah_id, ret.number_in_surah>> = successor
                  /\ successor \in Positions
                  /\ PosBefore(<<s, a>>, successor)
            \* n ayahs have been played, each after the one before
            /\ ret.is_last => call.n = TOTAL_AYAHS

\* C29: get_next_quran_ayah returns the immediate successor in Quran order,
\* crossing into the next surah after the last ayah of a surah, and is_last
\* exactly when there is no later ayah; asking again and again from 1:1
\* plays every position once, in order, and reaches is_last.
C29_NextAyahReachesLast ==
    /\ []NextAyahIsSuccessor
    /\ <>(Returned("get_next_quran_ayah") /\ ret.is_last)

\* the answer after 114:6, the 6236th ayah played
C29_Witness ==
    /\ Returned("get_next_quran_ayah")
    /\ ret.is_last
    /\ call.surah_id = 114 /\ call.ayah_number = 6
    /\ call.n = TOTAL_AYAHS

\* sum of the durations of the requests 1..r that have completed
RECURSIVE DurationOfDone(_)
DurationOfDone(r) ==
    IF r = 0 THEN 0
    ELSE DurationOfDone(r - 1)
         + (IF plays[r].pc = "done" THEN plays[r].duration_seconds ELSE 0)

\* C30: when k play-end requests of the user for the ayah have been sent and
\* all have completed, whatever their interleaving, there is exactly one
\* replay_stats row, its play_count is k and its total_duration_seconds is
\* the sum of the k durations.
C30_EveryPlayCountedOnce ==
    LET sent == {r \in PlayIds : plays[r].pc # "not_sent"}
    IN  (sent # {} /\ \A r \in sent : plays[r].pc = "done") =>
            /\ Len(replay_stats) = 1
            /\ replay_stats[1].play_count = Cardinality(sent)
            /\ replay_stats[1].total_duration_seconds = DurationOfDone(NumPlays)

====
